---- MODULE Spec2Model ----
(***************************************************************************)
(* A model of utils/datasets.py: the geometric transforms (pad_to_square,  *)
(* resize, horisontal_flip), ListDataset.__getitem__ and                   *)
(* ListDataset.collate_fn.                                                 *)
(*                                                                         *)
(* Conventions.                                                            *)
(*  - An image tensor (C x H x W) is a sequence of H rows of W pixels; the *)
(*    three channels are transformed identically by every operation of the *)
(*    file and are not distinguished.  A pixel is a natural number.        *)
(*  - A real number is an exact rational <<n, d>> in lowest terms, d > 0;  *)
(*    float rounding is not modelled.                                      *)
(*  - Python's None is the record None; a tensor of rows is Tensor(rows).  *)
(*  - Python sequences are 0-based, the sequences here are 1-based: the    *)
(*    code's pad[0..3] is pad[1..4], column c of a row is element c + 1.   *)
(***************************************************************************)
EXTENDS Integers, Sequences, FiniteSets, TLC

VARIABLES self, fs, ret, log, flip, threads, cfg

vars == <<self, fs, ret, log, flip, threads, cfg>>

(***************************************************************************)
(* Bounds of the model.                                                    *)
(***************************************************************************)
MaxDim == 3        \* image heights and widths of __getitem__ are 1..MaxDim
MaxPadDim == 7     \* image heights and widths of pad_to_square calls
MaxRows == 2       \* rows of a label file / of a flipped annotation tensor
MaxIndex == 2      \* indices handed to __getitem__ are 0..MaxIndex
MaxFlipDim == 2    \* heights and widths of the images flipped
MaxFlips == 2      \* successive applications of horisontal_flip

(***************************************************************************)
(* Exact arithmetic on rationals (the tensors' float arithmetic).          *)
(***************************************************************************)
Abs(x) == IF x < 0 THEN -x ELSE x

Max(a, b) == IF a >= b THEN a ELSE b

RECURSIVE GCD(_, _)
GCD(a, b) == IF b = 0 THEN a ELSE GCD(b, a % b)

Rat(n, d) ==
    LET s == IF d < 0 THEN -1 ELSE 1
        g == GCD(Abs(n), Abs(d))
    IN  <<(s * n) \div g, (s * d) \div g>>

Num(n) == <<n, 1>>

RAdd(a, b) == Rat(a[1] * b[2] + b[1] * a[2], a[2] * b[2])

RSub(a, b) == Rat(a[1] * b[2] - b[1] * a[2], a[2] * b[2])

RMul(a, b) == Rat(a[1] * b[1], a[2] * b[2])

RDiv(a, b) == Rat(a[1] * b[2], a[2] * b[1])

(***************************************************************************)
(* None and tensors of rows.                                               *)
(***************************************************************************)
None == [none |-> TRUE, rows |-> <<>>]

Tensor(rows) == [none |-> FALSE, rows |-> rows]

RECURSIVE SeqsUpTo(_, _)
SeqsUpTo(S, n) ==
    IF n = 0 THEN {<<>>}
    ELSE LET shorter == SeqsUpTo(S, n - 1)
         IN  shorter \cup {Append(s, x) : s \in {t \in shorter : Len(t) = n - 1}, x \in S}

(***************************************************************************)
(* Image tensors.                                                          *)
(***************************************************************************)
Height(img) == Len(img)

Width(img) == Len(img[1])

\* torch.nn.functional.pad(img, pad, mode='constant', value): pad[1], pad[2]
\* columns before and after the last axis, pad[3], pad[4] rows before and
\* after the axis before it.
F_pad(img, pad, value) ==
    LET h == Height(img)
        w == Width(img)
        W == w + pad[1] + pad[2]
        H == h + pad[3] + pad[4]
    IN  [i \in 1..H |->
            [j \in 1..W |->
                IF i <= pad[3] \/ i > pad[3] + h \/ j <= pad[1] \/ j > pad[1] + w
                THEN value
                ELSE img[i - pad[3]][j - pad[1]]]]

\* torch.flip(images, [-1]): every row reversed.
torch_flip(img) ==
    [i \in 1..Height(img) |->
        [j \in 1..Width(img) |-> img[i][Width(img) + 1 - j]]]

\* The mutant of pad_to_square: both halves rounded down.
pad_to_square_floor(img, pad_value) ==
    LET h == Height(img)
        w == Width(img)
        difference == Abs(h - w)
        pad == IF h <= w
               THEN <<0, 0, difference \div 2, difference \div 2>>
               ELSE <<difference \div 2, difference \div 2, 0, 0>>
    IN  [img |-> F_pad(img, pad, pad_value), pad |-> pad]

pad_to_square(img, pad_value) ==
    LET h == Height(img)
        w == Width(img)
        difference == Abs(h - w)
        pad == IF h <= w
               THEN <<0, 0, difference \div 2, difference - difference \div 2>>
               ELSE <<difference \div 2, difference - difference \div 2, 0, 0>>
    IN  [img |-> F_pad(img, pad, pad_value), pad |-> pad]

\* The mutant of horisontal_flip: center_x is negated instead of mirrored.
horisontal_flip_neg(images, targets) ==
    IF targets.none
    THEN [raised |-> TRUE, images |-> images, targets |-> targets]
    ELSE [raised |-> FALSE,
          images |-> torch_flip(images),
          targets |-> Tensor([k \in 1..Len(targets.rows) |->
                         [targets.rows[k] EXCEPT ![3] = RSub(Num(0), @)]])]

\* targets[:, 2] on None raises TypeError; on a tensor column 2 (center_x)
\* of every row is rewritten in place.
horisontal_flip(images, targets) ==
    IF targets.none
    THEN [raised |-> TRUE, images |-> images, targets |-> targets]
    ELSE [raised |-> FALSE,
          images |-> torch_flip(images),
          targets |-> Tensor([k \in 1..Len(targets.rows) |->
                         [targets.rows[k] EXCEPT ![3] = RSub(Num(1), @)]])]

(***************************************************************************)
(* The values the variables hold while a specification does not use them.  *)
(***************************************************************************)
NoSelf == [n_files |-> 0, img_size |-> 0, augment |-> FALSE, multiscale |-> FALSE,
           normalized_labels |-> FALSE, batch_count |-> 0]

NoRet == [op |-> "none"]

NoFs == [image |-> <<>>, label |-> None]

NoFlip == [images |-> <<>>, targets |-> None, images0 |-> <<>>, targets0 |-> None, n |-> 0]

NoThreads == <<>>

NoCfg == [img_size |-> 0, batch_count |-> 0, concurrent |-> FALSE]

(***************************************************************************)
(* pad_to_square on its own.                                               *)
(***************************************************************************)
PadValues == {0, 1}

\* A decoded h x w image; pixel (i, j) holds 2 + its position, so that no
\* pixel of the image equals a padding value.
Decoded(h, w) == [i \in 1..h |-> [j \in 1..w |-> 1 + (i - 1) * w + j + 1]]

InitPad ==
    /\ self = NoSelf
    /\ fs = NoFs
    /\ log = <<>>
    /\ flip = NoFlip
    /\ threads = NoThreads
    /\ cfg = NoCfg
    /\ \E h \in 1..MaxPadDim, w \in 1..MaxPadDim, v \in PadValues :
          ret = [op |-> "args", img |-> Decoded(h, w), pad_value |-> v]

PadToSquare ==
    /\ ret.op = "args"
    /\ LET r == pad_to_square(ret.img, ret.pad_value)
       IN  ret' = [op |-> "pad_to_square", h |-> Height(ret.img), w |-> Width(ret.img),
                   pad_value |-> ret.pad_value, img |-> r.img, pad |-> r.pad]
    /\ UNCHANGED <<self, fs, log, flip, threads, cfg>>

NextPad == PadToSquare

SpecPad == InitPad /\ [][NextPad]_vars

(***************************************************************************)
(* horisontal_flip on its own, applied repeatedly to one image and one     *)
(* annotation tensor.                                                      *)
(***************************************************************************)
FlipImages ==
    UNION {[1..h -> [1..w -> {0, 1}]] : h \in 1..MaxFlipDim, w \in 1..MaxFlipDim}

\* Rows <<batch_index, class_id, center_x, center_y, width, height>>.
FlipRows ==
    {<<Num(0), Num(0), Rat(1, 4), Rat(1, 2), Rat(1, 2), Rat(1, 4)>>,
     <<Num(0), Num(1), Rat(1, 2), Rat(1, 4), Rat(1, 4), Rat(1, 2)>>,
     <<Num(1), Num(0), Rat(1, 1), Rat(3, 4), Rat(1, 3), Rat(1, 1)>>}

InitFlip ==
    /\ self = NoSelf
    /\ fs = NoFs
    /\ ret = NoRet
    /\ log = <<>>
    /\ threads = NoThreads
    /\ cfg = NoCfg
    /\ \E im \in FlipImages, rows \in SeqsUpTo(FlipRows, MaxRows) :
          flip = [images |-> im, targets |-> Tensor(rows),
                  images0 |-> im, targets0 |-> Tensor(rows), n |-> 0]

HorisontalFlip ==
    /\ flip.n < MaxFlips
    /\ LET r == horisontal_flip(flip.images, flip.targets)
       IN  /\ ~r.raised
           /\ flip' = [flip EXCEPT !.images = r.images, !.targets = r.targets, !.n = @ + 1]
    /\ UNCHANGED <<self, fs, ret, log, threads, cfg>>

NextFlip == HorisontalFlip

SpecFlip == InitFlip /\ [][NextFlip]_vars

(***************************************************************************)
(* C4: for every h, w >= 1 pad_to_square returns an image of height and    *)
(* width max(h, w); the padding deltas (left, right, top, bottom) sum to   *)
(* |h - w|, are the floor and ceiling halves of |h - w| on the shorter     *)
(* axis and 0 on the other, and are all 0 when h = w.                      *)
(***************************************************************************)
PadToSquareIsSquare ==
    ret.op = "pad_to_square" =>
        LET m == Max(ret.h, ret.w)
            d == Abs(ret.h - ret.w)
        IN  /\ Height(ret.img) = m
            /\ \A i \in 1..Height(ret.img) : Len(ret.img[i]) = m
            /\ ret.pad[1] + ret.pad[2] + ret.pad[3] + ret.pad[4] = d
            /\ ret.h <= ret.w => ret.pad = <<0, 0, d \div 2, d - d \div 2>>
            /\ ret.h > ret.w => ret.pad = <<d \div 2, d - d \div 2, 0, 0>>
            /\ ret.h = ret.w => ret.pad = <<0, 0, 0, 0>>

\* A tall image with an odd difference has been padded left and right.
PadToSquareOddWitness ==
    /\ ret.op = "pad_to_square"
    /\ ret.h = 4
    /\ ret.w = 1
    /\ ret.pad = <<1, 2, 0, 0>>
    /\ Width(ret.img) = 4

(***************************************************************************)
(* C8: every application of horisontal_flip leaves batch_index, class_id,  *)
(* center_y, width and height of every record unchanged and rewrites       *)
(* center_x to 1 - center_x; after two applications the image and every    *)
(* center_x are the original ones.                                         *)
(***************************************************************************)
FlipInvolution ==
    /\ ~flip.targets.none
    /\ Len(flip.targets.rows) = Len(flip.targets0.rows)
    /\ \A k \in 1..Len(flip.targets.rows) :
          /\ \A c \in {1, 2, 4, 5, 6} : flip.targets.rows[k][c] = flip.targets0.rows[k][c]
          /\ flip.targets.rows[k][3] =
                IF flip.n % 2 = 1 THEN RSub(Num(1), flip.targets0.rows[k][3])
                ELSE flip.targets0.rows[k][3]
    /\ flip.images = IF flip.n % 2 = 1 THEN torch_flip(flip.images0) ELSE flip.images0

\* An asymmetric image and an off-centre record have been flipped twice.
FlipTwiceWitness ==
    /\ flip.n = 2
    /\ torch_flip(flip.images0) # flip.images0
    /\ Len(flip.targets0.rows) >= 1
    /\ flip.targets0.rows[1][3] = Rat(1, 4)
    /\ flip.images = flip.images0

(***************************************************************************)
(* ListDataset.__getitem__.  The file system is the state fs: the decoded  *)
(* image and the label file of the path the index selects (label None: no  *)
(* file at the derived path; label Tensor(rows): the rows np.loadtxt       *)
(* reads, <<class_id, center_x, center_y, width, height>>).                *)
(***************************************************************************)
\* The img_size values a dataset is constructed with.
ImgSizes == {416, 500}

\* Label rows; geometry normalized to the image unless normalized_labels
\* is off.
Boxes ==
    {<<Num(0), Rat(1, 2), Rat(1, 2), Rat(1, 2), Rat(1, 2)>>,
     <<Num(1), Rat(1, 4), Rat(3, 4), Rat(1, 2), Rat(1, 4)>>,
     <<Num(2), Rat(1, 3), Rat(1, 2), Rat(1, 4), Rat(1, 1)>>}

Labels == {None} \cup {Tensor(rows) : rows \in SeqsUpTo(Boxes, MaxRows)}

\* ColorJitter followed by ToTensor: a change of pixel values that leaves
\* the shape alone; j is the amount drawn.
ColorJitter(img, j) ==
    [i \in 1..Height(img) |-> [c \in 1..Width(img) |-> img[i][c] + j]]

Jitters == {0, 1}

\* Lines 111-130 for one row of boxes: the row of targets it becomes.
Remap(box, pad, h_factor, w_factor, padded_h, padded_w) ==
    LET half_w == RDiv(box[4], Num(2))
        half_h == RDiv(box[5], Num(2))
        x1 == RAdd(RMul(Num(w_factor), RSub(box[2], half_w)), Num(pad[1]))
        y1 == RAdd(RMul(Num(h_factor), RSub(box[3], half_h)), Num(pad[3]))
        x2 == RAdd(RMul(Num(w_factor), RAdd(box[2], half_w)), Num(pad[2]))
        y2 == RAdd(RMul(Num(h_factor), RAdd(box[3], half_h)), Num(pad[4]))
    IN  <<Num(0),
          box[1],
          RDiv(RDiv(RAdd(x1, x2), Num(2)), Num(padded_w)),
          RDiv(RDiv(RAdd(y1, y2), Num(2)), Num(padded_h)),
          RMul(box[4], Rat(w_factor, padded_w)),
          RMul(box[5], Rat(h_factor, padded_h))>>

\* The value __getitem__(index) returns, or raised when it raises; flip_draw
\* is np.random.random() < 0.5, jitter the amount ColorJitter draws.
getitem(index, flip_draw, jitter) ==
    LET img_path == index % self.n_files
        decoded == IF self.augment THEN ColorJitter(fs.image, jitter) ELSE fs.image
        h == Height(decoded)
        w == Width(decoded)
        h_factor == IF self.normalized_labels THEN h ELSE 1
        w_factor == IF self.normalized_labels THEN w ELSE 1
        padded == pad_to_square(decoded, 0)
        padded_h == Height(padded.img)
        padded_w == Width(padded.img)
        targets == IF fs.label.none THEN None
                   ELSE Tensor([k \in 1..Len(fs.label.rows) |->
                            Remap(fs.label.rows[k], padded.pad, h_factor, w_factor,
                                  padded_h, padded_w)])
        flipped == horisontal_flip(padded.img, targets)
    IN  IF self.augment /\ flip_draw
        THEN IF flipped.raised
             THEN [raised |-> TRUE, img_path |-> img_path, img |-> <<>>, targets |-> None,
                   pad |-> padded.pad]
             ELSE [raised |-> FALSE, img_path |-> img_path, img |-> flipped.images,
                   targets |-> flipped.targets, pad |-> padded.pad]
        ELSE [raised |-> FALSE, img_path |-> img_path, img |-> padded.img,
              targets |-> targets, pad |-> padded.pad]

\* ListDataset.__init__: the fields of a new dataset over n_files paths.
NewListDataset(n_files, img_size, augment, multiscale, normalized_labels) ==
    [n_files |-> n_files, img_size |-> img_size, augment |-> augment,
     multiscale |-> multiscale, normalized_labels |-> normalized_labels,
     batch_count |-> 0]

InitItem ==
    /\ \E n \in 1..2, a \in BOOLEAN, nl \in BOOLEAN :
          self = NewListDataset(n, 416, a, TRUE, nl)
    /\ \E h \in 1..MaxDim, w \in 1..MaxDim, l \in Labels :
          fs = [image |-> Decoded(h, w), label |-> l]
    /\ ret = NoRet
    /\ log = <<>>
    /\ flip = NoFlip
    /\ threads = NoThreads
    /\ cfg = NoCfg

GetItem(index, flip_draw, jitter) ==
    /\ ret.op = "none"
    /\ LET r == getitem(index, flip_draw, jitter)
       IN  ret' = [op |-> "getitem", index |-> index, flipped |-> self.augment /\ flip_draw,
                   raised |-> r.raised, img_path |-> r.img_path, img |-> r.img,
                   targets |-> r.targets, pad |-> r.pad]
    /\ UNCHANGED <<self, fs, log, flip, threads, cfg>>

NextItem == \E index \in 0..MaxIndex, d \in BOOLEAN, j \in Jitters : GetItem(index, d, j)

SpecItem == InitItem /\ [][NextItem]_vars

(***************************************************************************)
(* C1: __getitem__ for an index whose label file does not exist never      *)
(* raises: whatever the augment flag and the flip draw, it returns the     *)
(* path, an image and None.                                                *)
(***************************************************************************)
MissingLabelNeverRaises ==
    (ret.op = "getitem" /\ fs.label.none) =>
        (~ret.raised /\ ret.targets = None /\ ret.img # <<>>)

(***************************************************************************)
(* C5: with normalized labels, every box that pad + remap produces, taken  *)
(* back to pixels of the padded frame, is the original pixel rectangle     *)
(* moved by (pad_left, pad_top): its left edge is w*(cx - bw/2) + pad_left,*)
(* its top edge h*(cy - bh/2) + pad_top, its pixel width and height those  *)
(* of the original; for odd and for even |h - w|.                          *)
(***************************************************************************)
RemapIsTranslation ==
    (/\ ret.op = "getitem"
     /\ ~ret.raised
     /\ ~ret.flipped
     /\ ~fs.label.none
     /\ self.normalized_labels) =>
        LET h == Num(Height(fs.image))
            w == Num(Width(fs.image))
            ph == Num(Height(ret.img))
            pw == Num(Width(ret.img))
        IN  \A k \in 1..Len(fs.label.rows) :
                LET box == fs.label.rows[k]
                    out == ret.targets.rows[k]
                    px_w == RMul(out[5], pw)
                    px_h == RMul(out[6], ph)
                    left == RSub(RMul(out[3], pw), RDiv(px_w, Num(2)))
                    top == RSub(RMul(out[4], ph), RDiv(px_h, Num(2)))
                IN  /\ px_w = RMul(box[4], w)
                    /\ px_h = RMul(box[5], h)
                    /\ left = RAdd(RMul(w, RSub(box[2], RDiv(box[4], Num(2)))),
                                   Num(ret.pad[1]))
                    /\ top = RAdd(RMul(h, RSub(box[3], RDiv(box[5], Num(2)))),
                                  Num(ret.pad[3]))

(***************************************************************************)
(* ListDataset.collate_fn.  Here an image tensor is the record of the item *)
(* it was loaded for and of its spatial shape, [src, h, w]: interpolated   *)
(* pixel values are not modelled.  A batch is a sequence of the tuples     *)
(* __getitem__ returns, [path, img, targets].                              *)
(***************************************************************************)
MaxBatch == 3      \* items of a batch handed to collate_fn
MaxCalls == 21     \* collate_fn calls of a sequential run

MinSize == 320
MaxSize == 608
SizeStep == 32
DrawPeriod == 10

\* range(320, 608 + 1, 32)
Resolutions == {s \in MinSize..MaxSize : (s - MinSize) % SizeStep = 0}

\* F.interpolate(image.unsqueeze(0), size=size, ...).squeeze(0)
resize(image, size) == [image EXCEPT !.h = size, !.w = size]

\* The mutant of ShouldDraw: a draw every 5 calls.
ShouldDrawHalfPeriod(multiscale, batch_count) ==
    multiscale /\ batch_count % 5 = 0

\* self.multiscale and self.batch_count % 10 == 0
ShouldDraw(multiscale, batch_count) ==
    multiscale /\ batch_count % DrawPeriod = 0

\* The mutant of Incremented: the counter is left as it was.
NotIncremented(count) == count

\* self.batch_count += 1
Incremented(count) == count + 1

\* torch.stack raises RuntimeError unless all tensors have one shape.
StackRaises(imgs) ==
    \E i \in 1..Len(imgs), j \in 1..Len(imgs) :
        imgs[i].h # imgs[j].h \/ imgs[i].w # imgs[j].w

\* paths, imgs, targets = list(zip(*batch))
Paths(batch) == [i \in 1..Len(batch) |-> batch[i].path]

\* The mutant of Imgs: the images of the items without annotations are
\* dropped with their targets.
ImgsOfAnnotated(batch) ==
    LET kept == SelectSeq(batch, LAMBDA item : ~item.targets.none)
    IN  [i \in 1..Len(kept) |-> kept[i].img]

Imgs(batch) == [i \in 1..Len(batch) |-> batch[i].img]

Targets(batch) == [i \in 1..Len(batch) |-> batch[i].targets]

RECURSIVE Flatten(_)
Flatten(tensors) ==
    IF tensors = <<>> THEN <<>> ELSE Head(tensors).rows \o Flatten(Tail(tensors))

\* Lines 145-155: the None targets removed, column 0 of every row of the
\* i-th remaining tensor set to i, the tensors concatenated; torch.cat of an
\* empty list raises RuntimeError, which is caught and gives None.
CatTargets(batch) ==
    LET targets == SelectSeq(Targets(batch), LAMBDA boxes : ~boxes.none)
        indexed == [i \in 1..Len(targets) |->
                       Tensor([k \in 1..Len(targets[i].rows) |->
                           [targets[i].rows[k] EXCEPT ![1] = Num(i - 1)]])]
    IN  IF Len(indexed) = 0 THEN None ELSE Tensor(Flatten(indexed))

\* collate_fn(batch) when random.choice gives choice: what it returns and
\* what it leaves in self.
collate_fn(batch, choice) ==
    LET drew == ShouldDraw(self.multiscale, self.batch_count)
        img_size == IF drew THEN choice ELSE self.img_size
        imgs == [i \in 1..Len(Imgs(batch)) |-> resize(Imgs(batch)[i], img_size)]
        raised == StackRaises(imgs)
    IN  [raised |-> raised,
         drew |-> drew,
         paths |-> Paths(batch),
         imgs |-> imgs,
         targets |-> CatTargets(batch),
         img_size |-> img_size,
         batch_count |-> IF raised THEN self.batch_count
                         ELSE Incremented(self.batch_count)]

CollateFn(batch, choice) ==
    LET r == collate_fn(batch, choice)
    IN  /\ self' = [self EXCEPT !.img_size = r.img_size, !.batch_count = r.batch_count]
        /\ ret' = [op |-> "collate_fn", batch |-> batch, raised |-> r.raised,
                   paths |-> r.paths, imgs |-> r.imgs, targets |-> r.targets]
        /\ log' = Append(log, [batch_count |-> self.batch_count, drew |-> r.drew,
                               img_size |-> r.img_size,
                               sizes |-> {<<r.imgs[i].h, r.imgs[i].w>> : i \in 1..Len(r.imgs)}])
        /\ UNCHANGED <<fs, flip, threads, cfg>>

\* The rows __getitem__ gives a target tensor: column 0 is 0.
TargetRows ==
    <<<<Num(0), Num(0), Rat(1, 2), Rat(1, 2), Rat(1, 4), Rat(1, 4)>>,
      <<Num(0), Num(1), Rat(1, 4), Rat(3, 4), Rat(1, 2), Rat(1, 8)>>>>

\* None (no label file), a label file without rows, one row, two rows.
ItemTargets == {None} \cup {Tensor(SubSeq(TargetRows, 1, n)) : n \in 0..2}

\* The items of img_files 0 and 1, padded to squares of side 2 and 3.
Items ==
    {[path |-> p, img |-> [src |-> p, h |-> p + 2, w |-> p + 2], targets |-> t] :
        p \in 0..1, t \in ItemTargets}

Batches == SeqsUpTo(Items, MaxBatch) \ {<<>>}

\* What random.choice may return in the next call: it is called only when a
\* resolution is drawn.
Choices ==
    IF ShouldDraw(self.multiscale, self.batch_count) THEN Resolutions ELSE {self.img_size}

\* One call of collate_fn on any batch, by a dataset that has collated no
\* batch yet or one batch.
InitCollate ==
    /\ \E size \in {416}, m \in BOOLEAN, count \in 0..1 :
          /\ cfg = [img_size |-> size, batch_count |-> count, concurrent |-> FALSE]
          /\ \E now \in IF m /\ count > 0 THEN {MinSize, MaxSize} ELSE {size} :
                self = [NewListDataset(2, size, TRUE, m, TRUE)
                            EXCEPT !.batch_count = count, !.img_size = now]
    /\ \E batch \in Batches : ret = [op |-> "args", batch |-> batch]
    /\ fs = NoFs
    /\ log = <<>>
    /\ flip = NoFlip
    /\ threads = NoThreads

NextCollate ==
    /\ ret.op = "args"
    /\ \E choice \in Choices : CollateFn(ret.batch, choice)

SpecCollate == InitCollate /\ [][NextCollate]_vars

\* A run of collate_fn calls, one after another, of a new dataset.
SchedBatches == {b \in Batches : Len(b) <= 2 /\ \A i \in 1..Len(b) : b[i].targets.none}

InitSched ==
    /\ \E size \in ImgSizes, m \in BOOLEAN :
          /\ cfg = [img_size |-> size, batch_count |-> 0, concurrent |-> FALSE]
          /\ self = NewListDataset(2, size, TRUE, m, TRUE)
    /\ ret = NoRet
    /\ fs = NoFs
    /\ log = <<>>
    /\ flip = NoFlip
    /\ threads = NoThreads

NextSched ==
    /\ self.batch_count < MaxCalls
    /\ \E batch \in SchedBatches, choice \in Choices : CollateFn(batch, choice)

SpecSched == InitSched /\ [][NextSched]_vars

(***************************************************************************)
(* The batch an output row comes from.                                     *)
(***************************************************************************)
RECURSIVE RowsBefore(_, _)
RowsBefore(batch, i) ==
    IF i <= 1 THEN 0 ELSE RowsBefore(batch, i - 1) + Len(batch[i - 1].targets.rows)

\* The total number M of annotation records of a batch.
TotalRows(batch) == RowsBefore(batch, Len(batch) + 1)

\* The position (from 1) in the batch of the item whose row is the j-th of
\* the rows of the batch taken in batch order.
Origin(batch, j) ==
    CHOOSE i \in 1..Len(batch) :
        RowsBefore(batch, i) < j /\ j <= RowsBefore(batch, i) + Len(batch[i].targets.rows)

\* The number of items before position i that are not None.
TensorsBefore(batch, i) == Cardinality({n \in 1..(i - 1) : ~batch[n].targets.none})

(***************************************************************************)
(* C2: in a sequential run with multiscale on, a resolution is drawn only  *)
(* in calls whose counter (the number of calls completed before) is a      *)
(* multiple of 10, and every image of call k has the resolution drawn in   *)
(* call 10 * floor(k / 10); with multiscale off every image of every call  *)
(* has the configured img_size, which self.img_size keeps.                 *)
(***************************************************************************)
ResolutionSchedule ==
    \A n \in 1..Len(log) :
        LET k == n - 1
            drawn_at == 10 * (k \div 10) + 1
        IN  /\ log[n].batch_count = k
            /\ log[n].drew => (self.multiscale /\ k % 10 = 0)
            /\ self.multiscale =>
                  /\ log[drawn_at].drew
                  /\ log[drawn_at].img_size \in Resolutions
                  /\ log[n].sizes = {<<log[drawn_at].img_size, log[drawn_at].img_size>>}
            /\ ~self.multiscale =>
                  /\ log[n].sizes = {<<cfg.img_size, cfg.img_size>>}
                  /\ self.img_size = cfg.img_size

\* Twenty-one calls were made, the resolution of calls 0-9 differs from
\* that of calls 10-19, and the last batch held two images.
ResolutionScheduleWitness ==
    /\ self.multiscale
    /\ Len(log) = 21
    /\ log[1].img_size # log[11].img_size
    /\ log[20].sizes = {<<log[11].img_size, log[11].img_size>>}
    /\ log[21].drew
    /\ Len(ret.imgs) = 2

(***************************************************************************)
(* C3: after collate_fn the batch_index of every annotation record is the  *)
(* position of its image in the stacked images, that is of its item in the *)
(* batch handed in, items without annotations included.                    *)
(***************************************************************************)
BatchIndexIsBatchPosition ==
    (ret.op = "collate_fn" /\ ~ret.raised /\ ~ret.targets.none) =>
        \A j \in 1..Len(ret.targets.rows) :
            /\ ret.targets.rows[j][1] = Num(Origin(ret.batch, j) - 1)
            /\ ret.imgs[Origin(ret.batch, j)].src = ret.batch[Origin(ret.batch, j)].img.src

(***************************************************************************)
(* C6: collate_fn on N items returns the N paths and the N images in the   *)
(* order of the batch however many items have no annotations, and when no  *)
(* item has any it returns None for the annotations and does not fail.     *)
(***************************************************************************)
ImagesSurviveFiltering ==
    ret.op = "collate_fn" =>
        /\ ~ret.raised
        /\ ret.paths = [i \in 1..Len(ret.batch) |-> ret.batch[i].path]
        /\ Len(ret.imgs) = Len(ret.batch)
        /\ \A i \in 1..Len(ret.batch) :
              /\ ret.imgs[i].src = ret.batch[i].img.src
              /\ ret.imgs[i].h = self.img_size
              /\ ret.imgs[i].w = self.img_size
        /\ (\A i \in 1..Len(ret.batch) : ret.batch[i].targets.none) => ret.targets = None

\* A batch of three items, none with annotations, has been collated.
AllMarkerBatchWitness ==
    /\ ret.op = "collate_fn"
    /\ Len(ret.batch) = 3
    /\ \A i \in 1..3 : ret.batch[i].targets.none
    /\ ret.batch[1].path # ret.batch[2].path
    /\ Len(ret.imgs) = 3
    /\ ret.targets = None

(***************************************************************************)
(* C7: for a batch of items that have None, a tensor of no rows or a       *)
(* tensor of rows, collate_fn returns None for the annotations whenever    *)
(* the batch has M = 0 records in all, never a tensor of no rows; and      *)
(* otherwise a tensor of M rows, the items' rows in batch order.           *)
(***************************************************************************)
NoRecordsGiveNone ==
    (ret.op = "collate_fn" /\ ~ret.raised) =>
        LET M == TotalRows(ret.batch)
        IN  /\ M = 0 => ret.targets = None
            /\ M > 0 =>
                  /\ ~ret.targets.none
                  /\ Len(ret.targets.rows) = M
                  /\ \A j \in 1..M :
                        LET i == Origin(ret.batch, j)
                            row == ret.batch[i].targets.rows[j - RowsBefore(ret.batch, i)]
                        IN  \A c \in 2..6 : ret.targets.rows[j][c] = row[c]

(***************************************************************************)
(* C9: for the same batches, the batch_index of every record is the        *)
(* position of its tensor among the targets left once the None ones are    *)
(* dropped, and the batch_index values of the output are exactly 0..K-1,   *)
(* K the number of items that have at least one row.                       *)
(***************************************************************************)
BatchIndexIsContiguous ==
    (ret.op = "collate_fn" /\ ~ret.raised) =>
        LET K == Cardinality({i \in 1..Len(ret.batch) : Len(ret.batch[i].targets.rows) > 0})
        IN  /\ \A j \in 1..Len(ret.targets.rows) :
                  ret.targets.rows[j][1] = Num(TensorsBefore(ret.batch, Origin(ret.batch, j)))
            /\ {ret.targets.rows[j][1] : j \in 1..Len(ret.targets.rows)}
                  = {Num(x) : x \in 0..(K - 1)}

(***************************************************************************)
(* collate_fn called by two threads on one dataset.  A call is split into  *)
(* the steps at which it reads or writes self: the read of batch_count in  *)
(* line 158, the write of img_size in line 159, the read of img_size for   *)
(* each image in line 162, torch.stack, and the read and the write of      *)
(* batch_count that make up line 163.  cfg.concurrent tells whether the    *)
(* calls may interleave or run one after another.                          *)
(***************************************************************************)
MaxThreadCalls == 2    \* calls each thread makes

Threads == 1..2

IdleThread == [pc |-> "idle", imgs |-> <<>>, out |-> <<>>, tmp |-> 0,
               started |-> 0, returned |-> 0, raised |-> 0]

\* The batches the threads collate: the two items without annotations.
ConcBatches == {b \in SchedBatches : Len(b) = 2 /\ b[1].path = 0 /\ b[2].path = 1}

InitConc ==
    /\ \E size \in ImgSizes, c \in BOOLEAN, count \in {0, DrawPeriod - 1} :
          /\ cfg = [img_size |-> size, batch_count |-> count, concurrent |-> c]
          /\ self = [NewListDataset(2, size, TRUE, TRUE, TRUE) EXCEPT !.batch_count = count]
    /\ threads = [t \in Threads |-> IdleThread]
    /\ ret = NoRet
    /\ fs = NoFs
    /\ log = <<>>
    /\ flip = NoFlip

\* Lines 143-155, which touch nothing shared.
Begin(t, batch) ==
    /\ threads[t].pc = "idle"
    /\ threads[t].started < MaxThreadCalls
    /\ cfg.concurrent \/ \A u \in Threads : threads[u].pc = "idle"
    /\ threads' = [threads EXCEPT ![t].pc = "sched", ![t].imgs = Imgs(batch),
                                  ![t].out = <<>>, ![t].started = @ + 1]
    /\ UNCHANGED <<self, fs, ret, log, flip, cfg>>

\* Line 158: self.multiscale and self.batch_count are read.
ReadCount(t) ==
    /\ threads[t].pc = "sched"
    /\ threads' = [threads EXCEPT ![t].pc =
                      IF ShouldDraw(self.multiscale, self.batch_count)
                      THEN "draw" ELSE "resize"]
    /\ UNCHANGED <<self, fs, ret, log, flip, cfg>>

\* Line 159: self.img_size is written.
Draw(t, choice) ==
    /\ threads[t].pc = "draw"
    /\ self' = [self EXCEPT !.img_size = choice]
    /\ threads' = [threads EXCEPT ![t].pc = "resize"]
    /\ UNCHANGED <<fs, ret, log, flip, cfg>>

\* Line 162, one image: self.img_size is read for each image.
Resize(t) ==
    /\ threads[t].pc = "resize"
    /\ LET out == Append(threads[t].out,
                         resize(threads[t].imgs[Len(threads[t].out) + 1], self.img_size))
       IN  threads' = [threads EXCEPT ![t].out = out,
                          ![t].pc = IF Len(out) = Len(threads[t].imgs)
                                    THEN "stack" ELSE "resize"]
    /\ UNCHANGED <<self, fs, ret, log, flip, cfg>>

\* Line 162, torch.stack: the call ends here with RuntimeError when the
\* images differ in shape.
Stack(t) ==
    /\ threads[t].pc = "stack"
    /\ threads' = IF StackRaises(threads[t].out)
                  THEN [threads EXCEPT ![t].pc = "idle", ![t].out = <<>>,
                                       ![t].raised = @ + 1]
                  ELSE [threads EXCEPT ![t].pc = "load"]
    /\ UNCHANGED <<self, fs, ret, log, flip, cfg>>

\* Line 163: self.batch_count is read ...
Load(t) ==
    /\ threads[t].pc = "load"
    /\ threads' = [threads EXCEPT ![t].pc = "store", ![t].tmp = self.batch_count]
    /\ UNCHANGED <<self, fs, ret, log, flip, cfg>>

\* ... and written; the call returns.
Store(t) ==
    /\ threads[t].pc = "store"
    /\ self' = [self EXCEPT !.batch_count = Incremented(threads[t].tmp)]
    /\ threads' = [threads EXCEPT ![t].pc = "idle", ![t].out = <<>>, ![t].tmp = 0,
                                  ![t].returned = @ + 1]
    /\ UNCHANGED <<fs, ret, log, flip, cfg>>

NextConc ==
    \E t \in Threads :
        \/ \E batch \in ConcBatches : Begin(t, batch)
        \/ ReadCount(t)
        \/ \E choice \in Resolutions : Draw(t, choice)
        \/ Resize(t)
        \/ Stack(t)
        \/ Load(t)
        \/ Store(t)

SpecConc == InitConc /\ [][NextConc]_vars

\* The calls that have returned.
Completed == threads[1].returned + threads[2].returned

\* The images thread t has resized so far do not all have one resolution.
Mixed(t) == StackRaises(threads[t].out)

(***************************************************************************)
(* C10: when the calls run one after another, the images of a batch never  *)
(* have two resolutions and the counter has advanced by the number of      *)
(* calls completed; when two calls interleave, a batch with two            *)
(* resolutions and a counter that has advanced by less than 2 after two    *)
(* completed calls are both reachable.                                     *)
(***************************************************************************)
SequentialCallsAreSafe ==
    ~cfg.concurrent =>
        /\ \A t \in Threads : ~Mixed(t)
        /\ \A t \in Threads : threads[t].raised = 0
        /\ (\A t \in Threads : threads[t].pc = "idle") =>
              self.batch_count = cfg.batch_count + Completed

\* Two calls have returned, the counter has advanced by 1, and the batch a
\* thread is resizing has two resolutions.
InterleavedCallsRace ==
    /\ cfg.concurrent
    /\ Completed = 2
    /\ self.batch_count = cfg.batch_count + 1
    /\ \E t \in Threads : Mixed(t)

====
